---- MODULE Spec2Model ----
(***************************************************************************)
(* Model of aguaclara/design/component.py (the PlantInput.configs registry *)
(* and Component) and aguaclara/design/pipeline.py (PipelineComponent,     *)
(* Pipe, Elbow, Tee).                                                      *)
(*                                                                         *)
(* Units: lengths of the catalogue in 1/1000 inch, k_minor in 1/100,       *)
(* the relative error of flow_pipeline in 1/1000.                          *)
(***************************************************************************)
EXTENDS Integers, Sequences, FiniteSets, TLC

VARIABLES
    obj,      \* the live component objects, by address id(self)
    configs,  \* PlantInput.configs: mem_loc string -> PlantInput object
    heap,     \* the PlantInput objects: reference -> [q, temp]
    result,   \* the last call made by the client and how it ended
    threads   \* the propogate_config call each thread is in, and where

vars == <<obj, configs, heap, result, threads>>

----------------------------------------------------------------------------
(* Bounds of the model *)

\* number of addresses the allocator hands out
NumAddrs == 2
\* the lowest address (0xf, so that hex() yields one and two digit strings)
BaseAddr == 15
\* number of components the design trees of concurrent clients are made of
NumComponents == 4
\* number of (q, temp) inputs a client passes besides the defaults
NumInputs == 1
\* largest target head loss passed to flow_pipeline
MaxTarget == 2

Addrs == BaseAddr .. (BaseAddr + NumAddrs - 1)

----------------------------------------------------------------------------
(* Python values *)

None == -1

Q_DEFAULT == 20
TEMP_DEFAULT == 20

\* the (q, temp) inputs of the clients: the defaults and NumInputs others
Inputs == {[q |-> Q_DEFAULT + 10 * i, temp |-> TEMP_DEFAULT + 5 * i] :
              i \in 0..NumInputs}

HexDigit == <<"0", "1", "2", "3", "4", "5", "6", "7",
              "8", "9", "a", "b", "c", "d", "e", "f">>

RECURSIVE HexDigits(_)
HexDigits(n) ==
    IF n < 16 THEN HexDigit[n + 1]
    ELSE HexDigits(n \div 16) \o HexDigit[(n % 16) + 1]

\* hex(id(self)) for the object at address a
hex(a) == "0x" \o HexDigits(a)

\* setattr / getattr / hasattr on an object's attribute dictionary
SetAttr(o, name, v) == (name :> v) @@ o
HasAttr(o, name) == name \in DOMAIN o

Raise(e, l) == [exc |-> e, line |-> l]
NoExc == Raise("none", 0)

----------------------------------------------------------------------------
(* External collaborators: catalogue tables, constants, formula library *)

AVAILABLE_SIZES == <<500, 1000, 2000>>
AVAILABLE_IDS_SCH40 == <<622, 1049, 2067>>
AVAILABLE_FITTING_SIZES == <<500, 1000, 2000>>
AVAILABLE_FITTING_IDS == <<848, 1200, 2300>>

EL45_K_MINOR == 45
EL90_K_MINOR == 90
TEE_FLOW_BR_K_MINOR == 180
TEE_FLOW_RUN_K_MINOR == 60
PVC_PIPE_ROUGH == 12
NU_20 == 1

Abs(x) == IF x < 0 THEN -x ELSE x

SeqMin(S) == CHOOSE x \in S : \A y \in S : x <= y

\* ut.ceil_nearest: the smallest catalogue entry that is >= x (the largest
\* entry when none is)
ceil_nearest(x, arr) ==
    LET ge == {arr[i] : i \in {j \in DOMAIN arr : arr[j] >= x}}
        all == {arr[i] : i \in DOMAIN arr}
    IN  IF ge # {} THEN SeqMin(ge) ELSE CHOOSE m \in all : \A y \in all : y <= m

\* numpy: (np.abs(arr - x)).argmin(), the first index of the nearest entry
argmin_abs(arr, x) ==
    CHOOSE i \in DOMAIN arr :
        /\ \A j \in DOMAIN arr : Abs(arr[i] - x) <= Abs(arr[j] - x)
        /\ \A j \in DOMAIN arr : Abs(arr[j] - x) = Abs(arr[i] - x) => i <= j

\* pc.headloss_fric(q, id, length, nu, pipe_rough): grows with flow and length
headloss_fric(q, id_, length, nu, rough) ==
    (q * q * length * (100 + rough)) \div id_

\* pc.elbow_minor_loss(q, id, k_minor)
elbow_minor_loss(q, id_, k) == (k * q * q) \div id_

\* pc.flow_pipe(id, headloss, length, nu, pipe_rough, k_minor)
flow_pipe(id_, hl, length, nu, rough, k) ==
    1 + (hl * id_) \div ((100 + rough + k) * length)

----------------------------------------------------------------------------
(* component.py *)

\* a reference for a newly allocated PlantInput object: the object is named
\* after the key it is created for, or by any unused name
RefNames == {hex(a) : a \in Addrs} \cup {hex(a) \o "'" : a \in Addrs}
NewRef(hp, loc) ==
    IF loc \notin DOMAIN hp THEN loc
    ELSE CHOOSE r \in RefNames : r \notin DOMAIN hp

\* PlantInput objects are kept alive by the registry only
Collect(cfgs, hp) ==
    [r \in {cfgs[k] : k \in DOMAIN cfgs} |-> hp[r]]

\* PlantInput(q, temp)
PlantInput(q, temp) == [q |-> q, temp |-> temp]

\* Component.__init__ binds its keyword arguments to (q, temp): any other
\* keyword is a TypeError of the call
BindOK_AnyKeyword(kw) == DOMAIN kw \subseteq DOMAIN kw

BindOK(kw) == DOMAIN kw \subseteq {"q", "temp"}
ArgQ(kw) == IF "q" \in DOMAIN kw THEN kw["q"] ELSE Q_DEFAULT
ArgTemp(kw) == IF "temp" \in DOMAIN kw THEN kw["temp"] ELSE TEMP_DEFAULT

\* Component.__init__: register self.mem_loc unless it is registered
Component_init_Overwrite(cfgs, hp, loc, q, temp) ==
    LET r == NewRef(hp, loc)
        c == (loc :> r) @@ cfgs
    IN  [configs |-> c, heap |-> Collect(c, (r :> PlantInput(q, temp)) @@ hp)]

Component_init(cfgs, hp, loc, q, temp) ==
    IF loc \notin DOMAIN cfgs
    THEN LET r == NewRef(hp, loc)
         IN  [configs |-> (loc :> r) @@ cfgs,
              heap |-> (r :> PlantInput(q, temp)) @@ hp]
    ELSE [configs |-> cfgs, heap |-> hp]

\* Component.q and Component.temp of the object o
q(cfgs, hp, o) == hp[cfgs[o.mem_loc]].q
temp(cfgs, hp, o) == hp[cfgs[o.mem_loc]].temp

\* Component.propogate_config(self, subcomponents): the targets are given by
\* address, sub_mem_loc = hex(id(subcomp))
propogate_config_Copy(cfgs, hp, self, subs) ==
    LET src == hp[cfgs[self.mem_loc]]
        r == NewRef(hp, self.mem_loc)
        c == [k \in DOMAIN cfgs \cup {hex(a) : a \in subs} |->
                 IF k \in {hex(a) : a \in subs} THEN r ELSE cfgs[k]]
    IN  IF subs = {} THEN [configs |-> cfgs, heap |-> hp]
        ELSE [configs |-> c,
              heap |-> Collect(c, (r :> PlantInput(src.q, src.temp)) @@ hp)]

propogate_config(cfgs, hp, self, subs) ==
    LET c == [k \in DOMAIN cfgs \cup {hex(a) : a \in subs} |->
                 IF k \in {hex(a) : a \in subs}
                 THEN cfgs[self.mem_loc] ELSE cfgs[k]]
    IN  [configs |-> c, heap |-> Collect(c, hp)]

\* lines 90-92 of propogate_config, one pass of the loop for the target at
\* address sub: the key is computed and the record of self is read ...
propogate_load_Swapped(cfgs, self, sub) ==
    [key |-> self.mem_loc, val |-> cfgs[hex(sub)]]

propogate_load(cfgs, self, sub) ==
    [key |-> hex(sub), val |-> cfgs[self.mem_loc]]

\* ... and the record is stored under the key
propogate_store(cfgs, hp, key, val) ==
    [configs |-> (key :> val) @@ cfgs,
     heap |-> Collect((key :> val) @@ cfgs, hp)]

----------------------------------------------------------------------------
(* pipeline.py: construction *)

AVAILABLE_SPECS == {"sdr26", "sdr41", "sch40"}
AVAILABLE_ANGLES == {90, 45}
AVAILABLE_PATHS == {"branch", "run", "stopper"}

\* the outcome of a constructor: the exception raised (or none), the object as
\* far as it was built, and the registry the constructor leaves behind
Built(e, o, reg) ==
    [exc |-> e.exc, line |-> e.line, obj |-> o,
     configs |-> reg.configs, heap |-> reg.heap]

\* self.<name> for an attribute set on the class: a subclass that assigns the
\* name in its body overrides the value of the class
ClassAttr(o, name, default) == IF HasAttr(o, name) THEN o[name] ELSE default

\* the class a subclass defined by a client derives from
SubclassOf(cls) == cls \o "Subclass"

\* isinstance(o, cls): the methods of cls are the methods of o
IsInstance(o, cls) == o.type \in {cls, SubclassOf(cls)}

\* PipelineComponent.get_available_size
get_available_size(size) == ceil_nearest(size, AVAILABLE_SIZES)

\* PipelineComponent._rep_ok
PipelineComponent_rep_ok(o, objs) ==
    IF o.next # None
    THEN IF o.type = "Pipe" /\ objs[o.next].type \notin {"Elbow", "Tee"}
         THEN Raise("TypeError", 135)
         ELSE IF o.type \in {"Elbow"} /\ objs[o.next].type \notin {"Pipe"}
              THEN Raise("TypeError", 137)
              ELSE NoExc
    ELSE NoExc

\* Tee._rep_ok
Tee_rep_ok(o, objs) ==
    IF Cardinality({s \in {"left_type", "right_type"} : o[s] = "stopper"}) # 1
    THEN Raise("ValueError", 346)
    ELSE IF o.left_type \notin ClassAttr(o, "AVAILABLE_PATHS", AVAILABLE_PATHS)
         THEN Raise("ValueError", 349)
    ELSE IF o.right_type \notin ClassAttr(o, "AVAILABLE_PATHS", AVAILABLE_PATHS)
         THEN Raise("ValueError", 354)
    ELSE IF o.next # None /\ o.size # objs[o.next].size
         THEN Raise("ValueError", 359)
    ELSE IF o.next # None /\ objs[o.next].type \in {"Elbow", "Tee"}
         THEN Raise("ValueError", 362)
    ELSE NoExc

\* self._rep_ok() dispatches on the class of self
rep_ok(o, objs) ==
    IF IsInstance(o, "Tee") THEN Tee_rep_ok(o, objs)
    ELSE PipelineComponent_rep_ok(o, objs)

\* the check of line 44: both 'size' and 'id' among the keywords
BothGiven_Any(kw) == \E key \in {"size", "id"} : key \in DOMAIN kw

BothGiven(kw) == \A key \in {"size", "id"} : key \in DOMAIN kw

\* lines 50-53: the attributes PipelineComponent.__init__ sets first
BaseAttrs(o0) ==
    [size |-> 500, nu |-> NU_20, next |-> None, k_minor |-> 0] @@ o0

\* lines 57-59: self._rep_ok(), then the size is snapped to the catalogue
Validated(rep, o2, reg) ==
    Built(rep,
          IF rep.exc = "none"
          THEN SetAttr(o2, "size", get_available_size(o2.size)) ELSE o2,
          reg)

\* lines 55-59, once Component.__init__ has accepted the keywords
Registered(o2, kw, cfgs, hp, objs) ==
    Validated(rep_ok(o2, objs), o2,
              Component_init(cfgs, hp, o2.mem_loc, ArgQ(kw), ArgTemp(kw)))

\* PipelineComponent.__init__(self, **kwargs), self = o0 at address a
PipelineComponent_init(o0, a, kw, cfgs, hp, objs) ==
    IF BothGiven(kw)
    THEN Built(Raise("AttributeError", 45), o0, [configs |-> cfgs, heap |-> hp])
    ELSE IF ~BindOK(kw)
    THEN Built(Raise("TypeError", 55), BaseAttrs(o0),
               [configs |-> cfgs, heap |-> hp])
    ELSE Registered(SetAttr(BaseAttrs(o0), "mem_loc", hex(a)),
                    kw, cfgs, hp, objs)

\* int(spec[3:]) for the 'sdr' specs
sdr_of(spec) == IF spec = "sdr26" THEN 26 ELSE 41

\* the pair (self after the call, value returned) of a method that assigns
\* attributes of self
Ret(o, v) == [obj |-> o, ret |-> v]

\* Pipe._get_id_sdr: sets self.size and returns the inner diameter
Pipe_get_id_sdr(o, size, sdr) ==
    Ret(SetAttr(o, "size", get_available_size(size)),
        (get_available_size(size) * (sdr - 2)) \div sdr)

\* Pipe._get_id_sch40
Pipe_get_id_sch40(o, size) ==
    Ret(SetAttr(o, "size", get_available_size(size)),
        AVAILABLE_IDS_SCH40[argmin_abs(AVAILABLE_SIZES,
                                       get_available_size(size))])

\* Pipe._get_id
Pipe_get_id(o, size, spec) ==
    IF spec \in {"sdr26", "sdr41"} THEN Pipe_get_id_sdr(o, size, sdr_of(spec))
    ELSE Pipe_get_id_sch40(o, size)

\* lines 206-209 of Pipe.ID_SDR_all_available: the loop over the catalogue,
\* every _get_id_sdr call of it assigns self.size
RECURSIVE ID_SDR_loop(_, _, _, _)
ID_SDR_loop(o, SDR, i, ID) ==
    IF i > Len(AVAILABLE_SIZES) THEN Ret(o, ID)
    ELSE ID_SDR_loop(Pipe_get_id_sdr(o, AVAILABLE_SIZES[i], SDR).obj, SDR,
                     i + 1,
                     Append(ID, Pipe_get_id_sdr(o, AVAILABLE_SIZES[i],
                                                SDR).ret))

\* Pipe.ID_SDR_all_available(self, SDR)
Pipe_ID_SDR_all_available(o, SDR) == ID_SDR_loop(o, SDR, 1, <<>>)

\* line 192: self.id = self._get_id_sdr(nd, sdr), and nd is returned
Pipe_size_sdr_done(r, nd) == Ret(SetAttr(r.obj, "id", r.ret), nd)

\* Pipe._get_size_sdr
Pipe_get_size_sdr(o, id_, sdr) ==
    Pipe_size_sdr_done(
        Pipe_get_id_sdr(o, get_available_size((id_ * sdr) \div (sdr - 2)),
                        sdr),
        get_available_size((id_ * sdr) \div (sdr - 2)))

\* the catalogue entry of index i: (self with self.<name> = ids[i], sizes[i])
Entry(o, name, i, set, ret) == Ret(SetAttr(o, name, set[i]), ret[i])

\* Pipe._get_size_sch40
Pipe_get_size_sch40(o, id_) ==
    Entry(o, "id", argmin_abs(AVAILABLE_IDS_SCH40, id_),
          AVAILABLE_IDS_SCH40, AVAILABLE_SIZES)

\* Pipe._get_size
Pipe_get_size(o, id_, spec) ==
    IF spec \in {"sdr26", "sdr41"} THEN Pipe_get_size_sdr(o, id_, sdr_of(spec))
    ELSE Pipe_get_size_sch40(o, id_)

\* Elbow._get_size and Tee._get_size
Fitting_get_size(o, id_) ==
    Entry(o, "id", argmin_abs(AVAILABLE_FITTING_IDS, id_),
          AVAILABLE_FITTING_IDS, AVAILABLE_FITTING_SIZES)

\* Elbow._get_id and Tee._get_id
Fitting_get_id(o, size) ==
    Entry(o, "size", argmin_abs(AVAILABLE_FITTING_SIZES, size),
          AVAILABLE_FITTING_SIZES, AVAILABLE_FITTING_IDS)

\* lines 153-156, 240-243, 307-310: resolve id from size or size from id
Resolve(o, kw, get_id, get_size) ==
    IF "size" \in DOMAIN kw THEN SetAttr(get_id.obj, "id", get_id.ret)
    ELSE IF "id" \in DOMAIN kw THEN SetAttr(get_size.obj, "size", get_size.ret)
    ELSE o

\* lines 158-160 and 245-246: the next component must have the same size
SameSizeAsNext(o3, b, objs, line) ==
    IF o3.next # None /\ o3.size # objs[o3.next].size
    THEN Built(Raise("ValueError", line), o3, b)
    ELSE Built(NoExc, o3, b)

\* Pipe.__init__ after super().__init__(**kwargs) has returned b
Pipe_init_tail(b, kw, objs) ==
    IF b.exc # "none" THEN b
    ELSE IF b.obj.spec \notin ClassAttr(b.obj, "AVAILABLE_SPECS", AVAILABLE_SPECS)
    THEN Built(Raise("AttributeError", 152), b.obj, b)
    ELSE SameSizeAsNext(
             Resolve(b.obj, kw, Pipe_get_id(b.obj, b.obj.size, b.obj.spec),
                     Pipe_get_size(b.obj, b.obj.id, b.obj.spec)),
             b, objs, 159)

\* lines 144-147: the attributes Pipe.__init__ sets first, o0 is self as
\* object.__new__ made it
Pipe_attrs(o0) ==
    [id |-> 476, spec |-> "sdr41", length |-> 1,
     pipe_rough |-> PVC_PIPE_ROUGH] @@ o0

\* Pipe.__init__(self, **kwargs)
Pipe_init_self(o0, a, kw, cfgs, hp, objs) ==
    Pipe_init_tail(
        PipelineComponent_init(Pipe_attrs(o0), a, kw, cfgs, hp, objs),
        kw, objs)

\* Pipe(**kwargs)
Pipe_init(a, kw, cfgs, hp, objs) ==
    Pipe_init_self([type |-> "Pipe"], a, kw, cfgs, hp, objs)

\* lines 240-246 of Elbow.__init__, o1 is self with its k_minor set
Elbow_init_resolve(o1, b, kw, objs) ==
    SameSizeAsNext(
        Resolve(o1, kw, Fitting_get_id(o1, o1.size),
                Fitting_get_size(o1, o1.id)),
        b, objs, 246)

\* Elbow.__init__ after super().__init__(**kwargs) has returned b
Elbow_init_tail(b, kw, objs) ==
    IF b.exc # "none" THEN b
    ELSE IF b.obj.angle = 45
    THEN Elbow_init_resolve(SetAttr(b.obj, "k_minor", EL45_K_MINOR),
                            b, kw, objs)
    ELSE IF b.obj.angle = 90
    THEN Elbow_init_resolve(SetAttr(b.obj, "k_minor", EL90_K_MINOR),
                            b, kw, objs)
    ELSE Built(Raise("ValueError", 238), b.obj, b)

\* Elbow.__init__(self, **kwargs)
Elbow_init(a, kw, cfgs, hp, objs) ==
    Elbow_init_tail(
        PipelineComponent_init([type |-> "Elbow", angle |-> 90, id |-> 848],
                               a, kw, cfgs, hp, objs),
        kw, objs)

\* lines 286-298: the coefficient of an outlet type
outlet_k_minor(type, old) ==
    IF type = "branch" THEN TEE_FLOW_BR_K_MINOR
    ELSE IF type = "run" THEN TEE_FLOW_RUN_K_MINOR
    ELSE IF type = "stopper" THEN None
    ELSE old

\* lines 286-298: self.left_k_minor and self.right_k_minor
Tee_k_minors(o) ==
    [left_k_minor |-> outlet_k_minor(o.left_type, o.left_k_minor),
     right_k_minor |-> outlet_k_minor(o.right_type, o.right_k_minor)] @@ o

\* lines 300-305: the outlet that is not the stopper becomes next
Tee_next_Inverted(o1) ==
    IF o1.left_type # "stopper"
    THEN [next |-> o1.right, next_type |-> o1.right_type] @@ o1
    ELSE [next |-> o1.left, next_type |-> o1.left_type] @@ o1

Tee_next(o1) ==
    IF o1.left_type = "stopper"
    THEN [next |-> o1.right, next_type |-> o1.right_type] @@ o1
    ELSE [next |-> o1.left, next_type |-> o1.left_type] @@ o1

\* line 312: self._rep_ok() at the end of Tee.__init__
Tee_init_check(o3, b, objs) == Built(rep_ok(o3, objs), o3, b)

\* lines 307-312 of Tee.__init__
Tee_init_resolve(o2, b, kw, objs) ==
    Tee_init_check(
        Resolve(o2, kw, Fitting_get_id(o2, o2.size),
                Fitting_get_size(o2, o2.id)),
        b, objs)

\* Tee.__init__ after super().__init__(**kwargs) has returned b
Tee_init_tail(b, kw, objs) ==
    IF b.exc # "none" THEN b
    ELSE Tee_init_resolve(Tee_next(Tee_k_minors(b.obj)), b, kw, objs)

\* lines 274-282: the attributes Tee.__init__ sets first, o0 is self as
\* object.__new__ made it
Tee_attrs(o0) ==
    [left |-> None, left_type |-> "branch", left_k_minor |-> None,
     right |-> None, right_type |-> "stopper", right_k_minor |-> None,
     id |-> 848] @@ o0

\* Tee.__init__(self, **kwargs)
Tee_init_self(o0, a, kw, cfgs, hp, objs) ==
    Tee_init_tail(
        PipelineComponent_init(Tee_attrs(o0), a, kw, cfgs, hp, objs),
        kw, objs)

\* Tee(**kwargs)
Tee_init(a, kw, cfgs, hp, objs) ==
    Tee_init_self([type |-> "Tee"], a, kw, cfgs, hp, objs)

\* Sub(**kwargs) for a client's  class Sub(Pipe): AVAILABLE_SPECS = over  and
\* class Sub(Tee): AVAILABLE_PATHS = over : the constructors are inherited
Subclass_init(cls, over, a, kw, cfgs, hp, objs) ==
    IF cls = "Pipe"
    THEN Pipe_init_self([type |-> SubclassOf(cls), AVAILABLE_SPECS |-> over],
                        a, kw, cfgs, hp, objs)
    ELSE Tee_init_self([type |-> SubclassOf(cls), AVAILABLE_PATHS |-> over],
                       a, kw, cfgs, hp, objs)

\* the constructor of the class named cls
init(cls, a, kw, cfgs, hp, objs) ==
    IF cls = "Pipe" THEN Pipe_init(a, kw, cfgs, hp, objs)
    ELSE IF cls = "Elbow" THEN Elbow_init(a, kw, cfgs, hp, objs)
    ELSE Tee_init(a, kw, cfgs, hp, objs)

----------------------------------------------------------------------------
(* pipeline.py: the chain *)

\* Pipe.headloss, Elbow.headloss, Tee.headloss when self.q reads qv
headloss_at(o, qv) ==
    IF IsInstance(o, "Pipe")
    THEN headloss_fric(qv, o.id, o.length, o.nu, o.pipe_rough)
    ELSE IF IsInstance(o, "Elbow")
    THEN elbow_minor_loss(qv, o.id, o.k_minor)
    ELSE IF o.left_type = "stopper"
    THEN elbow_minor_loss(qv, o.id, o.right_k_minor)
    ELSE elbow_minor_loss(qv, o.id, o.left_k_minor)

headloss(cfgs, hp, o) == headloss_at(o, q(cfgs, hp, o))

\* PipelineComponent.headloss_pipeline
headloss_pipeline_SelfOnly(cfgs, hp, objs, a) ==
    headloss(cfgs, hp, objs[a])

RECURSIVE headloss_pipeline(_, _, _, _)
headloss_pipeline(cfgs, hp, objs, a) ==
    IF objs[a].next = None THEN headloss(cfgs, hp, objs[a])
    ELSE headloss(cfgs, hp, objs[a])
         + headloss_pipeline(cfgs, hp, objs, objs[a].next)

\* the assignment  o.q = v : Component.q is a property with a getter only,
\* so the assignment raises AttributeError and nothing is stored
q_setter(cfgs, hp, o, v) ==
    [exc |-> "AttributeError", configs |-> cfgs, heap |-> hp]

\* PipelineComponent.set_next_components_q
RECURSIVE set_next_components_q(_, _, _, _)
set_next_components_q(cfgs, hp, objs, a) ==
    IF objs[a].next # None
    THEN LET s == q_setter(cfgs, hp, objs[objs[a].next],
                           q(cfgs, hp, objs[a]))
         IN  IF s.exc # "none"
             THEN [exc |-> s.exc, line |-> 78,
                   configs |-> s.configs, heap |-> s.heap]
             ELSE set_next_components_q(s.configs, s.heap, objs,
                                        objs[a].next)
    ELSE [exc |-> "none", line |-> 0, configs |-> cfgs, heap |-> hp]

\* the attributes flow_pipeline reads from the component it seeds from
SeedAttrs == {"id", "length", "nu", "pipe_rough", "k_minor"}

\* lines 86-104: the component the first guess is computed from, None when
\* reading it raises AttributeError
seed_of_SelfOnly(objs, a) ==
    IF objs[a].type = "Pipe" THEN a ELSE None

seed_of(objs, a) ==
    IF objs[a].type = "Pipe" THEN a
    ELSE IF objs[a].next # None
            /\ \A f \in SeedAttrs : HasAttr(objs[objs[a].next], f)
         THEN objs[a].next
         ELSE None

\* lines 108-113: the loop, entered with err = 1.0
RECURSIVE flow_loop(_, _, _, _, _, _, _, _, _)
flow_loop(cfgs, hp, objs, a, target, err, flow, hloss, n) ==
    IF Abs(err) > 10
    THEN LET err1 == ((target - hloss) * 1000) \div (target + hloss)
             flow1 == flow + (err1 * flow) \div 1000
             s == q_setter(cfgs, hp, objs[a], flow1)
             p == set_next_components_q(s.configs, s.heap, objs, a)
         IN  IF s.exc # "none"
             THEN [exc |-> s.exc, line |-> 111, ret |-> None, flow |-> flow1,
                   iters |-> n + 1, configs |-> s.configs, heap |-> s.heap]
             ELSE IF p.exc # "none"
             THEN [exc |-> p.exc, line |-> p.line, ret |-> None,
                   flow |-> flow1, iters |-> n + 1,
                   configs |-> p.configs, heap |-> p.heap]
             ELSE flow_loop(p.configs, p.heap, objs, a, target, err1, flow1,
                            headloss_pipeline(p.configs, p.heap, objs, a),
                            n + 1)
    ELSE [exc |-> "none", line |-> 0, ret |-> flow, flow |-> flow,
          iters |-> n, configs |-> cfgs, heap |-> hp]

\* PipelineComponent.flow_pipeline(self, target_headloss)
flow_pipeline(cfgs, hp, objs, a, target) ==
    LET sd == seed_of(objs, a)
        flow0 == flow_pipe(objs[sd].id, target, objs[sd].length, objs[sd].nu,
                           objs[sd].pipe_rough, objs[sd].k_minor)
    IN  IF sd = None
        THEN [exc |-> "AttributeError", line |-> 103, ret |-> None,
              flow |-> None, iters |-> 0, configs |-> cfgs, heap |-> hp,
              seed |-> None, guess |-> None]
        ELSE [seed |-> sd, guess |-> flow0]
             @@ flow_loop(cfgs, hp, objs, a, target, 1000, flow0,
                          headloss_pipeline(cfgs, hp, objs, a), 0)

----------------------------------------------------------------------------
(* The calls a client makes *)

EmptyKw == [k \in {} |-> None]
NoCall == [op |-> "none", cls |-> "none", self |-> None, kw |-> EmptyKw,
           subs |-> {}, arg |-> None, exc |-> "none", line |-> 0,
           ret |-> None, flow |-> None, iters |-> 0, seed |-> None,
           guess |-> None]

Call(op, cls, self, kw, subs, arg, e) ==
    [NoCall EXCEPT !.op = op, !.cls = cls, !.self = self, !.kw = kw,
                   !.subs = subs, !.arg = arg, !.exc = e.exc,
                   !.line = e.line]

Classes == {"Pipe", "Elbow", "Tee"}
Targets == {100 * i : i \in 1..MaxTarget}

\* the objects reachable from a through next
RECURSIVE Chain(_, _)
Chain(objs, a) ==
    IF objs[a].next = None THEN {a} ELSE {a} \cup Chain(objs, objs[a].next)

\* the threads of the clients; a thread that is in no call
Threads == {1, 2}
Idle == [pc |-> "idle", self |-> None, subs |-> {}, todo |-> {},
         key |-> "", val |-> ""]

\* the components of the call thread t is in: self and the subcomponents
Tree(t) ==
    IF threads[t].pc = "idle" THEN {}
    ELSE {threads[t].self} \cup threads[t].subs

Init ==
    /\ obj = [a \in {} |-> NoCall]
    /\ configs = [k \in {} |-> None]
    /\ heap = [r \in {} |-> PlantInput(Q_DEFAULT, TEMP_DEFAULT)]
    /\ result = NoCall
    /\ threads = [t \in Threads |-> Idle]

\* cls(**kw): the allocator places the new object at any free address; an
\* object whose constructor raises is dropped again
New(cls, a, kw) ==
    /\ a \in Addrs \ DOMAIN obj
    /\ LET b == init(cls, a, kw, configs, heap, obj)
       IN  /\ obj' = IF b.exc = "none" THEN (a :> b.obj) @@ obj ELSE obj
           /\ configs' = b.configs
           /\ heap' = b.heap
           /\ result' = Call("construct", cls, a, kw, {}, None, b)
           /\ UNCHANGED threads

\* Sub(), Sub a subclass of cls that overrides the class's list of available
\* specs or paths
NewSubclass(cls, over, a) ==
    /\ a \in Addrs \ DOMAIN obj
    /\ LET b == Subclass_init(cls, over, a, EmptyKw, configs, heap, obj)
       IN  /\ obj' = IF b.exc = "none" THEN (a :> b.obj) @@ obj ELSE obj
           /\ configs' = b.configs
           /\ heap' = b.heap
           /\ result' = Call("construct", SubclassOf(cls), a, EmptyKw, {},
                             None, b)
           /\ UNCHANGED threads

\* cls()
Construct ==
    \E cls \in Classes, a \in Addrs : New(cls, a, EmptyKw)

\* Pipe(q=v, temp=t), Pipe()
ConstructInputs ==
    \E a \in Addrs, i \in Inputs :
        \/ New("Pipe", a, [q |-> i.q, temp |-> i.temp])
        \/ New("Pipe", a, EmptyKw)

\* cls(size=s), cls(id=d), cls(size=s, id=d), also together with q
ConstructSized ==
    \E cls \in Classes, a \in Addrs :
        \/ \E s \in {500, 1000} : New(cls, a, [size |-> s])
        \/ New(cls, a, [id |-> 476])
        \/ New(cls, a, [size |-> 500, id |-> 476])
        \/ \E i \in Inputs : New(cls, a, [size |-> 500, id |-> 476, q |-> i.q])
        \/ \E i \in Inputs : New(cls, a, [size |-> 500, q |-> i.q])

\* cls(next=n)
ConstructLinked ==
    \E cls \in Classes, a \in Addrs, n \in DOMAIN obj :
        New(cls, a, [next |-> n])

\* Tee(left_type=l, right_type=r)
ConstructTee ==
    \E a \in Addrs, l \in AVAILABLE_PATHS, r \in AVAILABLE_PATHS :
        New("Tee", a, [left_type |-> l, right_type |-> r])

\* class Sub(Pipe): AVAILABLE_SPECS = [...]; Sub()
\* class Sub(Tee): AVAILABLE_PATHS = [...]; Sub()
ConstructSubclass ==
    \E a \in Addrs :
        \/ \E over \in SUBSET AVAILABLE_SPECS : NewSubclass("Pipe", over, a)
        \/ \E over \in SUBSET AVAILABLE_PATHS : NewSubclass("Tee", over, a)

\* the last reference to an object is dropped and its address becomes free;
\* its entry in PlantInput.configs stays
Destroy ==
    \E a \in DOMAIN obj :
        /\ \A b \in DOMAIN obj : obj[b].next # a
        /\ \A t \in Threads : a \notin Tree(t)
        /\ obj' = [b \in DOMAIN obj \ {a} |-> obj[b]]
        /\ result' = Call("del", "none", None, EmptyKw, {}, None, NoExc)
        /\ UNCHANGED <<configs, heap, threads>>

\* self.propogate_config(subcomponents)
Propagate ==
    \E a \in DOMAIN obj, subs \in SUBSET DOMAIN obj :
        LET p == propogate_config(configs, heap, obj[a], subs)
        IN  /\ configs' = p.configs
            /\ heap' = p.heap
            /\ result' = Call("propogate_config", "none", a, EmptyKw,
                              subs, None, NoExc)
            /\ UNCHANGED <<obj, threads>>

\* a thread calls self.propogate_config(subcomponents) for a design tree that
\* shares no component with the tree of a call another thread is in
StartPropagate ==
    \E t \in Threads, a \in DOMAIN obj, subs \in SUBSET DOMAIN obj :
        /\ threads[t].pc = "idle"
        /\ \A u \in Threads \ {t} : ({a} \cup subs) \cap Tree(u) = {}
        /\ threads' = [threads EXCEPT ![t] =
                          [Idle EXCEPT !.pc = "loop", !.self = a,
                                       !.subs = subs, !.todo = subs]]
        /\ UNCHANGED <<obj, configs, heap, result>>

\* lines 89-92: the thread takes the next subcomponent, computes its key and
\* reads the record of self
LoadTarget ==
    \E t \in Threads :
        /\ threads[t].pc = "loop"
        /\ \E s \in threads[t].todo :
              LET l == propogate_load(configs, obj[threads[t].self], s)
              IN  threads' = [threads EXCEPT ![t].pc = "store",
                                             ![t].todo = @ \ {s},
                                             ![t].key = l.key,
                                             ![t].val = l.val]
        /\ UNCHANGED <<obj, configs, heap, result>>

\* lines 91-92: the thread stores the record under the key
StoreTarget ==
    \E t \in Threads :
        /\ threads[t].pc = "store"
        /\ LET p == propogate_store(configs, heap, threads[t].key,
                                    threads[t].val)
           IN  /\ configs' = p.configs
               /\ heap' = p.heap
        /\ threads' = [threads EXCEPT ![t].pc = "loop"]
        /\ UNCHANGED <<obj, result>>

\* the loop of line 89 is over and the call returns
ReturnPropagate ==
    \E t \in Threads :
        /\ threads[t].pc = "loop"
        /\ threads[t].todo = {}
        /\ threads' = [threads EXCEPT ![t].pc = "returned"]
        /\ result' = Call("propogate_config", "none", threads[t].self,
                          EmptyKw, threads[t].subs, None, NoExc)
        /\ UNCHANGED <<obj, configs, heap>>

\* r = PlantInput.configs[self.mem_loc]; r.q, r.temp = v, t
SetRecord ==
    \E a \in DOMAIN obj, i \in Inputs :
        /\ heap' = [heap EXCEPT ![configs[obj[a].mem_loc]] = PlantInput(i.q, i.temp)]
        /\ result' = Call("set_record", "none", None, EmptyKw, {}, None, NoExc)
        /\ UNCHANGED <<obj, configs, threads>>

\* self.next = n, for chains without cycles
SetNext ==
    \E a \in DOMAIN obj, n \in DOMAIN obj \cup {None} :
        /\ n # None => a \notin Chain(obj, n)
        /\ obj' = [obj EXCEPT ![a] = SetAttr(obj[a], "next", n)]
        /\ result' = Call("set_next", "none", None, EmptyKw, {}, None, NoExc)
        /\ UNCHANGED <<configs, heap, threads>>

\* self.ID_SDR_all_available(SDR) of a pipe
IDSDRAllAvailable ==
    \E a \in DOMAIN obj, SDR \in {26, 41} :
        /\ IsInstance(obj[a], "Pipe")
        /\ obj' = [obj EXCEPT ![a] = Pipe_ID_SDR_all_available(obj[a], SDR).obj]
        /\ result' = Call("ID_SDR_all_available", "none", a, EmptyKw, {},
                          SDR, NoExc)
        /\ UNCHANGED <<configs, heap, threads>>

\* self.headloss_pipeline
HeadlossPipeline ==
    \E a \in DOMAIN obj :
        /\ result' = [Call("headloss_pipeline", "none", a, EmptyKw, {},
                           None, NoExc)
                      EXCEPT !.ret = headloss_pipeline(configs, heap, obj, a)]
        /\ UNCHANGED <<obj, configs, heap, threads>>

\* self.set_next_components_q()
SetNextComponentsQ ==
    \E a \in DOMAIN obj :
        LET p == set_next_components_q(configs, heap, obj, a)
        IN  /\ configs' = p.configs
            /\ heap' = p.heap
            /\ result' = Call("set_next_components_q", "none", a,
                              EmptyKw, {}, None, p)
            /\ UNCHANGED <<obj, threads>>

\* self.flow_pipeline(target)
FlowPipeline ==
    \E a \in DOMAIN obj, target \in Targets :
        LET p == flow_pipeline(configs, heap, obj, a, target)
        IN  /\ configs' = p.configs
            /\ heap' = p.heap
            /\ result' = [Call("flow_pipeline", "none", a, EmptyKw, {},
                               target, p)
                          EXCEPT !.ret = p.ret, !.flow = p.flow,
                                 !.iters = p.iters, !.seed = p.seed,
                                 !.guess = p.guess]
            /\ UNCHANGED <<obj, threads>>

\* the registry: construction, destruction, propagation, record updates
NextRegistry ==
    \/ ConstructInputs
    \/ Destroy
    \/ Propagate
    \/ SetRecord

SpecRegistry == Init /\ [][NextRegistry]_vars

\* construction with every family of keyword arguments
NextConstruct ==
    \/ Construct
    \/ ConstructSized
    \/ ConstructLinked
    \/ ConstructTee

SpecConstruct == Init /\ [][NextConstruct]_vars

\* chains: construction, linking, flow changes, the aggregate head loss
NextChain ==
    \/ Construct
    \/ SetNext
    \/ SetRecord
    \/ HeadlossPipeline

SpecChain == Init /\ [][NextChain]_vars

\* the solver: construction, linking, flow propagation, flow_pipeline
NextSolver ==
    \/ Construct
    \/ SetNext
    \/ SetNextComponentsQ
    \/ FlowPipeline

SpecSolver == Init /\ [][NextSolver]_vars

\* construction by the classes and by subclasses of them, destruction
NextSubclass ==
    \/ Construct
    \/ ConstructSubclass
    \/ Destroy

SpecSubclass == Init /\ [][NextSubclass]_vars

\* sizes: construction, the catalogue listing of a pipe, construction with
\* a next component, destruction
NextSize ==
    \/ Construct
    \/ IDSDRAllAvailable
    \/ ConstructLinked
    \/ Destroy

SpecSize == Init /\ [][NextSize]_vars

\* NumComponents components, each constructed by Pipe() at the next address
ComponentAddrs == BaseAddr .. (BaseAddr + NumComponents - 1)

Planted(st, a, b) ==
    [obj |-> (a :> b.obj) @@ st.obj, configs |-> b.configs, heap |-> b.heap]

RECURSIVE Plant(_, _)
Plant(S, st) ==
    IF S = {} THEN st
    ELSE Plant(S \ {SeqMin(S)},
               Planted(st, SeqMin(S),
                       init("Pipe", SeqMin(S), EmptyKw, st.configs, st.heap,
                            st.obj)))

Constructed ==
    Plant(ComponentAddrs,
          [obj |-> [a \in {} |-> NoCall], configs |-> [k \in {} |-> None],
           heap |-> [r \in {} |-> PlantInput(Q_DEFAULT, TEMP_DEFAULT)]])

InitConcurrent ==
    /\ obj = Constructed.obj
    /\ configs = Constructed.configs
    /\ heap = Constructed.heap
    /\ result = NoCall
    /\ threads = [t \in Threads |-> Idle]

\* concurrent clients: each thread makes one propogate_config call, and the
\* passes of the loops of the calls interleave
NextConcurrent ==
    \/ StartPropagate
    \/ LoadTarget
    \/ StoreTarget
    \/ ReturnPropagate

SpecConcurrent == InitConcurrent /\ [][NextConcurrent]_vars

Next ==
    \/ Construct
    \/ ConstructSubclass
    \/ StartPropagate
    \/ LoadTarget
    \/ StoreTarget
    \/ ReturnPropagate
    \/ IDSDRAllAvailable
    \/ ConstructInputs
    \/ ConstructSized
    \/ ConstructLinked
    \/ ConstructTee
    \/ Destroy
    \/ Propagate
    \/ SetRecord
    \/ SetNext
    \/ HeadlossPipeline
    \/ SetNextComponentsQ
    \/ FlowPipeline

Spec == Init /\ [][Next]_vars

----------------------------------------------------------------------------
(* Properties *)

\* the object at address a is alive before and after the step
Stays(a) == a \in DOMAIN obj /\ a \in DOMAIN obj'

\* the step is a propogate_config call that names a among its targets
Retargets(a) == result'.op = "propogate_config" /\ a \in result'.subs

\* C1: after propogate_config(source, targets) every target is associated
\* with the very PlantInput object of the source, so target.q and target.temp
\* read the source's values; two components that share a record keep sharing
\* it, and read the same values after any update of it, until a
\* propogate_config call names one of them as a target.
C1_PropagateSharesRecord ==
    [][ /\ result'.op = "propogate_config" =>
              \A t \in result'.subs :
                  /\ configs'[hex(t)] = configs[obj[result'.self].mem_loc]
                  /\ configs'[hex(t)] = configs'[obj'[result'.self].mem_loc]
                  /\ q(configs', heap', obj'[t])
                        = q(configs', heap', obj'[result'.self])
                  /\ temp(configs', heap', obj'[t])
                        = temp(configs', heap', obj'[result'.self])
        /\ \A a \in DOMAIN obj, b \in DOMAIN obj :
              ( /\ Stays(a) /\ Stays(b)
                /\ configs[obj[a].mem_loc] = configs[obj[b].mem_loc]
                /\ ~Retargets(a) /\ ~Retargets(b) )
              => /\ configs'[obj'[a].mem_loc] = configs'[obj'[b].mem_loc]
                 /\ q(configs', heap', obj'[a]) = q(configs', heap', obj'[b])
                 /\ temp(configs', heap', obj'[a])
                       = temp(configs', heap', obj'[b])
      ]_vars

\* a propogate_config call has given a target the record created for the
\* source, which is not the record the target was registered with
C1_Witness ==
    /\ result.op = "propogate_config"
    /\ \E t \in result.subs :
          /\ t # result.self
          /\ configs[hex(t)] = configs[hex(result.self)]
          /\ configs[hex(t)] # hex(t)

\* C2: a successful construction with flow rate q and temperature t leaves the
\* new component registered with a record that holds exactly q and t and that
\* no other key of the registry is associated with.
C2_FreshRecord ==
    (result.op = "construct" /\ result.exc = "none") =>
        LET k == hex(result.self)
        IN  /\ heap[configs[k]].q = ArgQ(result.kw)
            /\ heap[configs[k]].temp = ArgTemp(result.kw)
            /\ \A k2 \in DOMAIN configs \ {k} : configs[k2] # configs[k]

\* C3: Component.__init__ of an object whose key is already in the registry
\* leaves the registry and the records as they are, and the association of a
\* key changes only in a propogate_config call that names the object at that
\* key as a target.
C3_RegisterNoOp ==
    [][ /\ (result'.op = "construct" /\ hex(result'.self) \in DOMAIN configs)
              => (configs' = configs /\ heap' = heap)
        /\ \A k \in DOMAIN configs :
              (k \notin DOMAIN configs' \/ configs'[k] # configs[k])
              => ( /\ result'.op = "propogate_config"
                   /\ \E t \in result'.subs : hex(t) = k )
      ]_vars

\* a component has been constructed at a key that was registered before: the
\* record of its key does not hold the arguments of the construction
C3_Witness ==
    /\ result.op = "construct"
    /\ result.exc = "none"
    /\ heap[configs[hex(result.self)]].q # ArgQ(result.kw)

\* the adjacency rules of PipelineComponent._rep_ok and Tee._rep_ok
LegalNext(cls, nextcls) ==
    IF cls = "Pipe" THEN nextcls \in {"Elbow", "Tee"}
    ELSE IF cls = "Elbow" THEN nextcls = "Pipe"
    ELSE nextcls \notin {"Elbow", "Tee"}

\* the raise statements of the structural checks
StructuralLines == {135, 137, 346, 349, 354, 359, 362}

\* C4: every live component with a non-empty next obeys the adjacency rules
\* right after its construction, and a construction whose next breaks the
\* rule of its class ends in the error raised by the structural check.
C4_IllegalNextRejected ==
    result.op = "construct" =>
        /\ (result.exc = "none" /\ obj[result.self].next # None)
              => LegalNext(result.cls, obj[obj[result.self].next].type)
        /\ ("next" \in DOMAIN result.kw
              /\ ~LegalNext(result.cls, obj[result.kw["next"]].type))
              => (result.exc # "none" /\ result.line \in StructuralLines)

\* the number of outlets given as 'stopper' in the keywords of a Tee
Stoppers(kw) ==
    Cardinality({s \in {"left_type", "right_type"} : kw[s] = "stopper"})

\* C5: constructing a Tee with both outlet types 'stopper', or neither, ends
\* in the error of the stopper check, and every constructed Tee has exactly
\* one 'stopper' outlet and both types among the available paths.
C5_TeeOneStopper ==
    (result.op = "construct" /\ result.cls = "Tee") =>
        /\ ({"left_type", "right_type"} \subseteq DOMAIN result.kw
              /\ Stoppers(result.kw) # 1)
              => (result.exc = "ValueError" /\ result.line = 346)
        /\ result.exc = "none" =>
              /\ Stoppers(obj[result.self]) = 1
              /\ obj[result.self].left_type \in AVAILABLE_PATHS
              /\ obj[result.self].right_type \in AVAILABLE_PATHS

\* C6: a construction raises the error of line 45 exactly when both 'size'
\* and 'id' are among its keywords, and raises no AttributeError otherwise.
C6_SizeXorId ==
    result.op = "construct" =>
        /\ {"size", "id"} \subseteq DOMAIN result.kw
              => (result.exc = "AttributeError" /\ result.line = 45)
        /\ ~({"size", "id"} \subseteq DOMAIN result.kw)
              => result.exc # "AttributeError"

\* constructions were rejected for giving both 'size' and 'id'
C6_Witness ==
    /\ result.op = "construct"
    /\ {"size", "id"} \subseteq DOMAIN result.kw
    /\ result.exc = "AttributeError"

\* the sum of the head losses of the objects of S, each counted once
RECURSIVE SumHeadloss(_, _, _, _)
SumHeadloss(cfgs, hp, objs, S) ==
    IF S = {} THEN 0
    ELSE LET a == CHOOSE x \in S : TRUE
         IN  headloss(cfgs, hp, objs[a]) + SumHeadloss(cfgs, hp, objs, S \ {a})

RECURSIVE headloss_pipeline_at(_, _, _)
headloss_pipeline_at(objs, a, qv) ==
    IF objs[a].next = None THEN headloss_at(objs[a], qv)
    ELSE headloss_at(objs[a], qv) + headloss_pipeline_at(objs, objs[a].next, qv)

C9_SeedPipe ==
    [][ result'.op = "flow_pipeline" =>
          LET a == result'.self
              n == obj[a].next
              guess(s) == flow_pipe(obj[s].id, result'.arg, obj[s].length,
                                    obj[s].nu, obj[s].pipe_rough,
                                    obj[s].k_minor)
          IN  IF obj[a].type = "Pipe"
              THEN result'.seed = a /\ result'.guess = guess(a)
              ELSE IF n # None /\ obj[n].type = "Pipe"
              THEN result'.seed = n /\ result'.guess = guess(n)
              ELSE /\ result'.exc = "AttributeError"
                   /\ result'.line = 103
                   /\ result'.iters = 0
                   /\ configs' = configs
                   /\ heap' = heap
      ]_vars

\* flow_pipeline was called on a fitting followed by a pipe, and on a fitting
\* that has no pipe to seed from
C9_Witness ==
    /\ result.op = "flow_pipeline"
    /\ obj[result.self].type = "Elbow"
    /\ result.seed # None
    /\ result.seed = obj[result.self].next

\* C10: set_next_components_q completes without error and afterwards every
\* node reachable from self through next reads the flow rate of self.
C10_ChainReadsSelfQ ==
    result.op = "set_next_components_q" =>
        /\ result.exc = "none"
        /\ \A b \in Chain(obj, result.self) :
              q(configs, heap, obj[b]) = q(configs, heap, obj[result.self])

\* C11: after any sequence of constructions and assignments to next, every
\* live component with a non-empty next obeys the adjacency rules of its
\* class, and no assignment to next that breaks them is accepted.
C11_AdjacencyAfterSetNext ==
    /\ \A a \in DOMAIN obj :
          obj[a].next # None => LegalNext(obj[a].type, obj[obj[a].next].type)
    /\ result.op = "set_next" =>
          \/ result.exc # "none"
          \/ \A a \in DOMAIN obj :
                obj[a].next # None
                   => LegalNext(obj[a].type, obj[obj[a].next].type)

\* the raise statements of the validation checks of the constructors
ValidationLines == StructuralLines \cup {152, 159, 238, 246}

\* C12: a construction that fails a validation check leaves the registry
\* with exactly the associations and records it held before the attempt, and
\* leaves no entry under the key of the failed component.
C12_FailedConstructionLeavesNothing ==
    [][ ( /\ result'.op = "construct"
          /\ result'.exc # "none"
          /\ result'.line \in ValidationLines )
        => /\ configs' = configs
           /\ heap' = heap
           /\ hex(result'.self) \notin DOMAIN configs
                 => hex(result'.self) \notin DOMAIN configs'
      ]_vars

\* the keywords kw without the keyword name
Without(kw, name) == [k \in DOMAIN kw \ {name} |-> kw[k]]

\* the nominal size a component of class cls resolves to when it is built at
\* address a with the keywords kw other than next
ResolvedSize(cls, a, kw) ==
    init(cls, a, Without(kw, "next"), configs, heap, obj).obj.size

OpenOutlet(t) == IF t.left_type = "stopper" THEN "right" ELSE "left"

\* the coefficient the constants of head_loss give an outlet type
PathKMinor(type) ==
    IF type = "branch" THEN TEE_FLOW_BR_K_MINOR ELSE TEE_FLOW_RUN_K_MINOR

\* C14: every constructed Tee has as next the component of its non-stopper
\* outlet (right when left_type is 'stopper', otherwise left) and as next_type
\* the type of that outlet, and its head loss is the minor loss with the
\* branch or run coefficient of that outlet, never with the empty coefficient
\* of the stopper.
C14_TeeNextIsOpenOutlet ==
    \A a \in DOMAIN obj :
        IsInstance(obj[a], "Tee") =>
            LET t == obj[a]
                out == OpenOutlet(t)
            IN  /\ t.next = t[out]
                /\ t.next_type = t[out \o "_type"]
                /\ t.next_type \in {"branch", "run"}
                /\ t[out \o "_k_minor"] = PathKMinor(t.next_type)
                /\ headloss(configs, heap, t)
                      = elbow_minor_loss(q(configs, heap, t), t.id,
                                         PathKMinor(t.next_type))

\* a Tee has been constructed, and its head loss is the one of its branch
C14_Witness ==
    /\ result.op = "construct"
    /\ result.cls = "Tee"
    /\ result.exc = "none"
    /\ obj[result.self].next_type = "branch"
    /\ headloss(configs, heap, obj[result.self])
          = elbow_minor_loss(Q_DEFAULT, obj[result.self].id,
                             TEE_FLOW_BR_K_MINOR)

\* the record the registry gives the component at address a was assigned to
\* it by its own construction, or by a propogate_config call that names it as
\* a target
AssignedToIt(a) ==
    \/ configs[hex(a)] = Constructed.configs[hex(a)]
    \/ \E t \in Threads :
          /\ threads[t].pc # "idle"
          /\ a \in threads[t].subs
          /\ configs[hex(a)] = Constructed.configs[hex(threads[t].self)]

\* every thread has made its call and the call has returned
AllReturned == \A t \in Threads : threads[t].pc = "returned"

\* the registry after the calls of the threads t and then u, one after the
\* other
OneAfterTheOther(t, u) ==
    propogate_config(
        propogate_config(Constructed.configs, Constructed.heap,
                         obj[threads[t].self], threads[t].subs).configs,
        propogate_config(Constructed.configs, Constructed.heap,
                         obj[threads[t].self], threads[t].subs).heap,
        obj[threads[u].self], threads[u].subs)

====
